---------------------------- MODULE Spec2Model ----------------------------
(***************************************************************************)
(* A model of src/src/analyst.py: the FinanceAnalyst (task-type detection, *)
(* response normalisation, fallback, analyze) and the AnalystExecutor      *)
(* (the task lifecycle run by execute).                                    *)
(*                                                                         *)
(* Python strings that are inspected character by character (the prompt)   *)
(* are sequences of one-character strings.  Python values read from JSON   *)
(* are tagged records [k |-> kind, v |-> payload]; a dict is a function    *)
(* from its keys to such values.                                           *)
(***************************************************************************)
EXTENDS Integers, Sequences, FiniteSets, TLC

VARIABLES
    \* -- _detect_task_type applied to one prompt
    cPrompt, cType,
    \* -- _format_response applied to one parsed object
    fParsed, fTaskType, fOut,
    \* -- one call of analyze
    aPrompt, aPc, aTaskType, aReply, aCalls, aOut,
    \* -- AnalystExecutor.execute: the host's task store, the event queue of
    \*    each call ...
    status, events, allocated, faults,
    \* -- ... and the execute calls (one coroutine each)
    pc, msg, task, task_type, gen, result, err, outcome, analyzeCalls, genCalls

clsVars == <<cPrompt, cType>>
fmtVars == <<fParsed, fTaskType, fOut>>
anaVars == <<aPrompt, aPc, aTaskType, aReply, aCalls, aOut>>
hostVars == <<status, events, allocated, faults>>
execVars == <<pc, msg, task, task_type, gen, result, err, outcome, analyzeCalls, genCalls>>
vars == <<clsVars, fmtVars, anaVars, hostVars, execVars>>

(***************************************************************************)
(* Bounds of the model.                                                    *)
(***************************************************************************)
\* A prompt is the concatenation of at most MaxFrags fragments.
MaxFrags == 2
\* A raw object given to _format_response holds at most MaxKeys keys.
MaxKeys == 2
\* Number of execute calls (inbound messages) in one behaviour.
MaxExecs == 2
\* Number of task identities the host can hand out.
MaxTasks == 1
\* Number of awaits of host calls (event queue, TaskUpdater) that raise in one
\* behaviour.
MaxFaults == 1

Min(S) == CHOOSE x \in S : \A y \in S : x <= y

(***************************************************************************)
(* Strings                                                                 *)
(***************************************************************************)
UpperChars == <<"A", "B", "C", "D", "E", "F", "G", "H", "I", "J", "K", "L", "M",
                "N", "O", "P", "Q", "R", "S", "T", "U", "V", "W", "X", "Y", "Z">>
LowerChars == <<"a", "b", "c", "d", "e", "f", "g", "h", "i", "j", "k", "l", "m",
                "n", "o", "p", "q", "r", "s", "t", "u", "v", "w", "x", "y", "z">>

\* The characters of the prompts.  A character outside ASCII is written by its
\* code point: U+212A KELVIN SIGN, U+0130 LATIN CAPITAL LETTER I WITH DOT
\* ABOVE, U+0307 COMBINING DOT ABOVE, U+00C9 / U+00E9 LATIN LETTER E WITH ACUTE
\* (capital / small).
OtherChars == {"0", "1", "2", "3", " ", "-", "\n", "U+0307", "U+00E9"}
Alphabet ==
    {UpperChars[i] : i \in 1..26} \cup {LowerChars[i] : i \in 1..26}
    \cup {"U+212A", "U+0130", "U+00C9"} \cup OtherChars

\* str.lower() on one character of Alphabet: the Unicode lower-case mapping,
\* which is not confined to ASCII (U+212A gives "k") and can give more than
\* one character (U+0130 gives "i" followed by U+0307).
LowerChar(c) ==
    [a \in Alphabet |->
        IF \E i \in 1..26 : UpperChars[i] = a
        THEN <<LowerChars[CHOOSE i \in 1..26 : UpperChars[i] = a]>>
        ELSE IF a = "U+212A" THEN <<"k">>
        ELSE IF a = "U+0130" THEN <<"i", "U+0307">>
        ELSE IF a = "U+00C9" THEN <<"U+00E9">>
        ELSE <<a>>][c]

\* prompt.lower()
RECURSIVE lower(_)
lower(s) == IF s = << >> THEN << >> ELSE LowerChar(Head(s)) \o lower(Tail(s))

\* needle in hay  (Python substring test)
Contains(needle, hay) ==
    \E i \in 0..(Len(hay) - Len(needle)) :
        SubSeq(hay, i + 1, i + Len(needle)) = needle

kw_task_1 == <<"t", "a", "s", "k", " ", "1">>
kw_risk_classification == <<"r", "i", "s", "k", " ", "c", "l", "a", "s", "s", "i", "f", "i", "c", "a", "t", "i", "o", "n">>
kw_task_2 == <<"t", "a", "s", "k", " ", "2">>
kw_business_summary == <<"b", "u", "s", "i", "n", "e", "s", "s", " ", "s", "u", "m", "m", "a", "r", "y">>
kw_task_3 == <<"t", "a", "s", "k", " ", "3">>
kw_consistency == <<"c", "o", "n", "s", "i", "s", "t", "e", "n", "c", "y">>
kw_risk_factor == <<"r", "i", "s", "k", " ", "f", "a", "c", "t", "o", "r">>
kw_section_1a == <<"s", "e", "c", "t", "i", "o", "n", " ", "1", "a">>
kw_business == <<"b", "u", "s", "i", "n", "e", "s", "s">>
kw_section_1 == <<"s", "e", "c", "t", "i", "o", "n", " ", "1">>

TaskTypes == {"risk_classification", "business_summary", "consistency_check"}

(***************************************************************************)
(* FinanceAnalyst._detect_task_type                                        *)
(***************************************************************************)
\* A plausible slip: the "business" + "section 1" test placed before the
\* "risk factor" / "section 1a" test.
_detect_task_type_reordered(prompt) ==
    LET prompt_lower == lower(prompt) IN
    IF Contains(kw_task_1, prompt_lower) \/ Contains(kw_risk_classification, prompt_lower)
    THEN "risk_classification"
    ELSE IF Contains(kw_task_2, prompt_lower) \/ Contains(kw_business_summary, prompt_lower)
    THEN "business_summary"
    ELSE IF Contains(kw_task_3, prompt_lower) \/ Contains(kw_consistency, prompt_lower)
    THEN "consistency_check"
    ELSE IF Contains(kw_business, prompt_lower) /\ Contains(kw_section_1, prompt_lower)
    THEN "business_summary"
    ELSE "risk_classification"

_detect_task_type(prompt) ==
    LET prompt_lower == lower(prompt) IN
    IF Contains(kw_task_1, prompt_lower) \/ Contains(kw_risk_classification, prompt_lower)
    THEN "risk_classification"
    ELSE IF Contains(kw_task_2, prompt_lower) \/ Contains(kw_business_summary, prompt_lower)
    THEN "business_summary"
    ELSE IF Contains(kw_task_3, prompt_lower) \/ Contains(kw_consistency, prompt_lower)
    THEN "consistency_check"
    ELSE IF Contains(kw_risk_factor, prompt_lower) \/ Contains(kw_section_1a, prompt_lower)
    THEN "risk_classification"
    ELSE IF Contains(kw_business, prompt_lower) /\ Contains(kw_section_1, prompt_lower)
    THEN "business_summary"
    ELSE "risk_classification"

(***************************************************************************)
(* Prompts: concatenations of fragments, in mixed case, that hold the      *)
(* keywords, prefixes of them, capitals outside ASCII, and text that       *)
(* matches nothing.                                                        *)
(***************************************************************************)
Fragments == {
    <<"T", "a", "s", "k", " ", "1">>,
    <<"T", "A", "S", "K", " ", "2">>,
    <<"T", "a", "s", "k", " ">>,
    <<"3">>,
    <<"R", "i", "s", "k", " ", "C", "l", "a", "s", "s", "i", "f", "i", "c", "a", "t", "i", "o", "n">>,
    <<"b", "u", "s", "i", "n", "e", "s", "s", " ", "s", "u", "m", "m", "a", "r", "y">>,
    <<"C", "o", "n", "s", "i", "s", "t", "e", "n", "c", "y">>,
    <<"R", "i", "s", "k", " ", "F", "a", "c", "t", "o", "r">>,
    <<"S", "E", "C", "T", "I", "O", "N", " ", "1", "A">>,
    <<"B", "u", "s", "i", "n", "e", "s", "s">>,
    <<"s", "e", "c", "t", "i", "o", "n", " ", "1">>,
    <<"a">>,
    <<" ", "a", "n", "d", " ">>,
    <<"1", "0", "-", "K">>,
    <<"t", "a", "s", "U+212A", " ", "2">>,
    <<"C", "O", "N", "S", "U+0130", "S", "T", "E", "N", "C", "Y">>,
    <<"R", "U+00C9", "S", "U", "M", "U+00C9">> }

RECURSIVE TextsOf(_)
TextsOf(n) ==
    IF n = 0 THEN {<< >>}
    ELSE LET P == TextsOf(n - 1) IN P \cup {p \o f : p \in P, f \in Fragments}

Texts == TextsOf(MaxFrags)

(***************************************************************************)
(* Python values                                                           *)
(***************************************************************************)
PyNone == [k |-> "none", v |-> 0]
PyBool(b) == [k |-> "bool", v |-> b]
PyInt(n) == [k |-> "int", v |-> n]
PyStr(s) == [k |-> "str", v |-> s]
PyList(l) == [k |-> "list", v |-> l]
PyDict(d) == [k |-> "dict", v |-> d]
EmptyDict == [key \in {} |-> PyNone]

\* bool(x): None, False, 0, "", [] and {} are false, everything else is true.
Truthy(x) ==
    CASE x.k = "none" -> FALSE
      [] x.k = "bool" -> x.v
      [] x.k = "int"  -> x.v # 0
      [] x.k = "str"  -> x.v # ""
      [] x.k = "list" -> x.v # << >>
      [] x.k = "dict" -> DOMAIN x.v # {}

\* x or y
Or(x, y) == IF Truthy(x) THEN x ELSE y

\* d.get(key) and d.get(key, default), d a dict
get(d, key) == IF key \in DOMAIN d.v THEN d.v[key] ELSE PyNone
get_default(d, key, default) == IF key \in DOMAIN d.v THEN d.v[key] ELSE default

\* The outcome of evaluating an expression: a value, or an exception raised.
Return(x) == [raised |-> FALSE, value |-> x]
Raise(e) == [raised |-> TRUE, value |-> PyStr(e)]

(***************************************************************************)
(* FinanceAnalyst._get_system_prompt: the three fixed templates, each      *)
(* given by its analyst role, the closed category list it names and the    *)
(* output schema it asks for.                                              *)
(***************************************************************************)
RiskCategories == {
    "Market Risk", "Operational Risk", "Financial Risk", "Legal/Regulatory Risk",
    "Technology Risk", "Cybersecurity Risk", "Competition Risk", "Supply Chain Risk",
    "Human Capital/Talent Risk", "Environmental/Climate Risk",
    "COVID-19/Pandemic Risk", "Geopolitical Risk" }

_get_system_prompt(tt) ==
    IF tt = "risk_classification"
    THEN [role |-> "financial risk analyst", categories |-> RiskCategories,
          task |-> "risk_classification"]
    ELSE IF tt = "business_summary"
    THEN [role |-> "business analyst", categories |-> {},
          task |-> "business_summary"]
    ELSE [role |-> "financial document analyst", categories |-> {},
          task |-> "consistency_check"]

(***************************************************************************)
(* FinanceAnalyst._format_response                                         *)
(***************************************************************************)
\* A plausible slip: the alternative field names tried in another order.
_format_response_reordered(parsed, tt) ==
    IF parsed.k # "dict" THEN Raise("AttributeError")
    ELSE IF tt = "risk_classification" THEN
        Return(PyDict([task |-> PyStr(tt),
                       risk_classification |->
                           Or(get(parsed, "categories"),
                           Or(get(parsed, "risk_classification"),
                           Or(get(parsed, "risk_categories"), PyList(<< >>))))]))
    ELSE IF tt = "business_summary" THEN
        LET summary == Or(get(parsed, "business_summary"), parsed) IN
        IF summary.k # "dict" THEN Raise("AttributeError")
        ELSE Return(PyDict([task |-> PyStr(tt),
                            business_summary |-> PyDict(
                                [industry  |-> get_default(summary, "industry", PyStr("N/A")),
                                 products  |-> get_default(summary, "products", PyStr("N/A")),
                                 geography |-> get_default(summary, "geography", PyStr("N/A"))])]))
    ELSE
        Return(PyDict([task |-> PyStr(tt),
                       consistency_check |->
                           Or(get(parsed, "discussed_risks"),
                           Or(get(parsed, "consistency_check"),
                           Or(get(parsed, "consistent_risks"), PyList(<< >>))))]))

\* parsed.get(...) and summary.get(...) raise AttributeError on a value that
\* is not a dict (a list, a string, a number).
_format_response(parsed, tt) ==
    IF parsed.k # "dict" THEN Raise("AttributeError")
    ELSE IF tt = "risk_classification" THEN
        LET categories == Or(get(parsed, "risk_classification"),
                          Or(get(parsed, "categories"),
                          Or(get(parsed, "risk_categories"), PyList(<< >>))))
        IN  Return(PyDict([task |-> PyStr(tt), risk_classification |-> categories]))
    ELSE IF tt = "business_summary" THEN
        LET summary == Or(get(parsed, "business_summary"), parsed) IN
        IF summary.k # "dict" THEN Raise("AttributeError")
        ELSE Return(PyDict([task |-> PyStr(tt),
                            business_summary |-> PyDict(
                                [industry  |-> get_default(summary, "industry", PyStr("N/A")),
                                 products  |-> get_default(summary, "products", PyStr("N/A")),
                                 geography |-> get_default(summary, "geography", PyStr("N/A"))])]))
    ELSE
        LET risks == Or(get(parsed, "consistency_check"),
                     Or(get(parsed, "discussed_risks"),
                     Or(get(parsed, "consistent_risks"), PyList(<< >>))))
        IN  Return(PyDict([task |-> PyStr(tt), consistency_check |-> risks]))

(***************************************************************************)
(* FinanceAnalyst._get_fallback_response                                   *)
(***************************************************************************)
\* A plausible slip: one fallback for every task type.
_get_fallback_response_single(tt) ==
    PyDict([task |-> PyStr("risk_classification"),
            risk_classification |->
                PyList(<<PyStr("Market Risk"), PyStr("Operational Risk")>>)])

_get_fallback_response(tt) ==
    IF tt = "risk_classification" THEN
        PyDict([task |-> PyStr("risk_classification"),
                risk_classification |->
                    PyList(<<PyStr("Market Risk"), PyStr("Operational Risk")>>)])
    ELSE IF tt = "business_summary" THEN
        PyDict([task |-> PyStr("business_summary"),
                business_summary |-> PyDict(
                    [industry  |-> PyStr("Unable to determine"),
                     products  |-> PyStr("Unable to determine"),
                     geography |-> PyStr("Unable to determine")])])
    ELSE
        PyDict([task |-> PyStr("consistency_check"),
                consistency_check |-> PyList(<< >>)])

(***************************************************************************)
(* json.loads and json.dumps.  The text returned by the generation         *)
(* service is a sequence of JSON tokens: punctuation, atoms (a string, a   *)
(* number or a literal, carrying its Python value) and junk (characters    *)
(* that begin no JSON token).  json_loads is the parser proper: it returns *)
(* the value of the one JSON document the tokens spell, or raises.         *)
(***************************************************************************)
Punct(c) == [t |-> "punct", v |-> PyStr(c)]
Atom(x) == [t |-> "atom", v |-> x]
Junk(s) == [t |-> "junk", v |-> PyStr(s)]

IsPunct(toks, i, c) == i <= Len(toks) /\ toks[i] = Punct(c)

ParseFail == [ok |-> FALSE, val |-> PyNone, next |-> 0]
ParseOk(x, n) == [ok |-> TRUE, val |-> x, next |-> n]

RECURSIVE parse_value(_, _), parse_elements(_, _, _), parse_members(_, _, _)

parse_value(toks, i) ==
    IF i > Len(toks) THEN ParseFail
    ELSE IF toks[i].t = "atom" THEN ParseOk(toks[i].v, i + 1)
    ELSE IF IsPunct(toks, i, "[") THEN
        IF IsPunct(toks, i + 1, "]") THEN ParseOk(PyList(<< >>), i + 2)
        ELSE parse_elements(toks, i + 1, << >>)
    ELSE IF IsPunct(toks, i, "{") THEN
        IF IsPunct(toks, i + 1, "}") THEN ParseOk(PyDict(EmptyDict), i + 2)
        ELSE parse_members(toks, i + 1, EmptyDict)
    ELSE ParseFail

parse_elements(toks, i, acc) ==
    LET r == parse_value(toks, i) IN
    IF ~r.ok THEN ParseFail
    ELSE IF IsPunct(toks, r.next, ",") THEN parse_elements(toks, r.next + 1, Append(acc, r.val))
    ELSE IF IsPunct(toks, r.next, "]") THEN ParseOk(PyList(Append(acc, r.val)), r.next + 1)
    ELSE ParseFail

\* A later duplicate key replaces the earlier one, as in json.loads.
parse_members(toks, i, acc) ==
    IF ~(i <= Len(toks) /\ toks[i].t = "atom" /\ toks[i].v.k = "str" /\ IsPunct(toks, i + 1, ":"))
    THEN ParseFail
    ELSE
        LET key == toks[i].v.v
            r   == parse_value(toks, i + 2)
            upd == [x \in DOMAIN acc \cup {key} |-> IF x = key THEN r.val ELSE acc[x]]
        IN  IF ~r.ok THEN ParseFail
            ELSE IF IsPunct(toks, r.next, ",") THEN parse_members(toks, r.next + 1, upd)
            ELSE IF IsPunct(toks, r.next, "}") THEN ParseOk(PyDict(upd), r.next + 1)
            ELSE ParseFail

\* json.loads(result); result is None (TypeError) or text (JSONDecodeError
\* unless the whole text is one JSON document).
json_loads(content) ==
    IF content.k = "none" THEN Raise("TypeError")
    ELSE LET r == parse_value(content.v, 1) IN
         IF r.ok /\ r.next = Len(content.v) + 1 THEN Return(r.val)
         ELSE Raise("JSONDecodeError")

\* json.dumps(obj, indent): the text is kept as the document it spells and
\* the indentation it was written with (0: the compact default).
json_dumps(obj, indent) == [k |-> "json", v |-> obj, indent |-> indent]

(***************************************************************************)
(* FinanceAnalyst.analyze                                                  *)
(***************************************************************************)
\* The exceptions that "except Exception" (lines 78 and 274) does not catch:
\* BaseException itself and the classes of Python that derive from it without
\* deriving from Exception.  asyncio raises CancelledError at the await where
\* a cancelled coroutine is suspended.
BaseOnly == {"BaseException", "BaseExceptionGroup", "CancelledError",
             "GeneratorExit", "KeyboardInterrupt", "SystemExit"}
IsException(e) == e \notin BaseOnly

\* What the await of the request to the generation service comes back with: an
\* exception (network, API, cancellation), or a completion whose content is
\* None or text.
ReplyRaise(e) == [kind |-> "raise", content |-> PyStr(e)]
ReplyNone == [kind |-> "completion", content |-> PyNone]
ReplyText(toks) == [kind |-> "completion", content |-> [k |-> "text", v |-> toks]]

\* The body of the try block, lines 61-76.
analyze_try(task_type_, reply) ==
    IF reply.kind = "raise" THEN Raise(reply.content.v)
    ELSE LET parsed == json_loads(reply.content) IN
         IF parsed.raised THEN parsed
         ELSE LET formatted == _format_response(parsed.value, task_type_) IN
              IF formatted.raised THEN formatted
              ELSE Return(json_dumps(formatted.value, 2))

\* A plausible slip: "except json.JSONDecodeError" in place of "except Exception".
analyze_return_narrow(task_type_, reply) ==
    LET r == analyze_try(task_type_, reply) IN
    IF r.raised /\ r.value = PyStr("JSONDecodeError")
    THEN Return(json_dumps(_get_fallback_response(task_type_), 0))
    ELSE r

\* try ... except Exception: return json.dumps(fallback), lines 60-80; what
\* the except clause does not catch leaves analyze.
analyze_return(task_type_, reply) ==
    LET r == analyze_try(task_type_, reply) IN
    IF r.raised /\ IsException(r.value.v)
    THEN Return(json_dumps(_get_fallback_response(task_type_), 0))
    ELSE r

(***************************************************************************)
(* The host (a2a): messages, the task store and the event queue            *)
(***************************************************************************)
Tasks == 1..MaxTasks
Execs == 1..MaxExecs

TERMINAL_STATES == {"completed", "canceled", "failed", "rejected"}

TextPart(text) == [kind |-> "text", text |-> text]
DataPart == [kind |-> "data", text |-> << >>]
NoMessage == [present |-> FALSE, parts |-> << >>]
Message(parts) == [present |-> TRUE, parts |-> parts]

\* a2a.utils.get_message_text: the text parts of the message joined by "\n";
\* the empty string when the message holds no text part.
RECURSIVE join_text_parts(_, _)
join_text_parts(parts, first) ==
    IF parts = << >> THEN << >>
    ELSE IF Head(parts).kind # "text" THEN join_text_parts(Tail(parts), first)
    ELSE (IF first THEN << >> ELSE <<"\n">>) \o Head(parts).text
         \o join_text_parts(Tail(parts), FALSE)

get_message_text(m) == join_text_parts(m.parts, TRUE)

\* The inbound messages of the executor's runs: none; one whose two text parts
\* join to "Business\nsummary section 1"; one with no text part at all.
Messages == {
    NoMessage,
    Message(<<TextPart(<<"B", "u", "s", "i", "n", "e", "s", "s">>), DataPart,
              TextPart(<<"s", "u", "m", "m", "a", "r", "y", " ", "s", "e", "c", "t", "i", "o", "n", " ", "1">>)>>),
    Message(<<DataPart>>) }

\* Events put on the event queue of a call (the event_queue argument of
\* execute); the store's status follows the status events.
TaskEvent(st) == [kind |-> "task", state |-> st, text |-> ""]
StatusEvent(st, text) == [kind |-> "status", state |-> st, text |-> text]
ArtifactEvent(name, text) == [kind |-> "artifact", state |-> name, text |-> text]

ArtifactsOf(e) == SelectSeq(events[e], LAMBDA ev : ev.kind = "artifact")

(***************************************************************************)
(* What the generation service answers.                                    *)
(***************************************************************************)
StrList(l) == PyList([i \in 1..Len(l) |-> PyStr(l[i])])
Doc1(key, x) == <<Punct("{"), Atom(PyStr(key)), Punct(":")>> \o x \o <<Punct("}")>>
ArrayToks(l) ==
    <<Punct("[")>>
    \o [i \in 1..(2 * Len(l) - 1) |-> IF i % 2 = 1 THEN Atom(PyStr(l[(i + 1) \div 2])) ELSE Punct(",")]
    \o <<Punct("]")>>

\* {"risk_classification": ["Market Risk", "Cybersecurity Risk"]}
ReplyGood == ReplyText(Doc1("risk_classification", ArrayToks(<<"Market Risk", "Cybersecurity Risk">>)))
\* Sorry, I cannot help with that.
ReplyProse == ReplyText(<<Junk("Sorry, I cannot help with that.")>>)
\* {"categories": ["Market Risk"        (cut off by max_tokens)
ReplyTruncated == ReplyText(<<Punct("{"), Atom(PyStr("categories")), Punct(":"),
                              Punct("["), Atom(PyStr("Market Risk"))>>)

Replies == {
    ReplyRaise("APIConnectionError"),
    ReplyRaise("CancelledError"),
    ReplyNone,
    ReplyText(<< >>),
    ReplyProse,
    ReplyTruncated,
    \* {"a": 1} trailing
    ReplyText(Doc1("a", <<Atom(PyInt(1))>>) \o <<Junk("trailing")>>),
    ReplyGood,
    ReplyText(Doc1("categories", ArrayToks(<<"Market Risk">>))),
    ReplyText(Doc1("risk_classification", ArrayToks(<<"Liquidity Risk">>))),
    ReplyText(Doc1("risk_classification", <<Atom(PyStr("Market Risk"))>>)),
    \* {"risk_classification": [], "risk_categories": ["Technology Risk"]}
    ReplyText(<<Punct("{"), Atom(PyStr("risk_classification")), Punct(":"), Punct("["), Punct("]"),
                Punct(","), Atom(PyStr("risk_categories")), Punct(":")>>
              \o ArrayToks(<<"Technology Risk">>) \o <<Punct("}")>>),
    ReplyText(Doc1("industry", <<Atom(PyStr("Tech"))>>)),
    \* {"business_summary": {"industry": "Tech", "products": null}}
    ReplyText(Doc1("business_summary",
                   <<Punct("{"), Atom(PyStr("industry")), Punct(":"), Atom(PyStr("Tech")), Punct(","),
                     Atom(PyStr("products")), Punct(":"), Atom(PyNone), Punct("}")>>)),
    ReplyText(Doc1("business_summary", <<Atom(PyStr("A technology company"))>>)),
    ReplyText(Doc1("discussed_risks", ArrayToks(<<"inflation">>))),
    \* ["Market Risk"]     (a JSON document that is no object)
    ReplyText(ArrayToks(<<"Market Risk">>)),
    ReplyText(<<Punct("{"), Punct("}")>>) }

\* The answers drawn in the executor's runs.
ExecReplies == {ReplyRaise("APIConnectionError"), ReplyRaise("CancelledError"),
                ReplyTruncated, ReplyGood}

(***************************************************************************)
(* Initial values                                                          *)
(***************************************************************************)
Pending == [raised |-> FALSE, value |-> PyStr("<pending>")]

ClsIdle == cPrompt = << >> /\ cType = "unset"
FmtIdle == fParsed = PyDict(EmptyDict) /\ fTaskType = "risk_classification" /\ fOut = Pending
AnaIdle ==
    /\ aPrompt = << >> /\ aPc = "start" /\ aTaskType = "unset"
    /\ aReply = ReplyNone /\ aCalls = 0 /\ aOut = Pending
ExecIdle ==
    /\ pc = [e \in Execs |-> "idle"]
    /\ msg = [e \in Execs |-> NoMessage]
    /\ task = [e \in Execs |-> 0]
    /\ task_type = [e \in Execs |-> "unset"]
    /\ gen = [e \in Execs |-> "none"]
    /\ result = [e \in Execs |-> PyNone]
    /\ err = [e \in Execs |-> ""]
    /\ outcome = [e \in Execs |-> ""]
    /\ analyzeCalls = [e \in Execs |-> 0]
    /\ genCalls = [e \in Execs |-> 0]
HostIdle ==
    /\ status = [t \in Tasks |-> "none"]
    /\ events = [e \in Execs |-> << >>]
    /\ allocated = {}
    /\ faults = 0

(***************************************************************************)
(* SpecClassify: _detect_task_type on every prompt of Texts                *)
(***************************************************************************)
InitClassify ==
    /\ cPrompt \in Texts /\ cType = "unset"
    /\ FmtIdle /\ AnaIdle /\ HostIdle /\ ExecIdle

Classify ==
    /\ cType = "unset"
    /\ cType' = _detect_task_type(cPrompt)
    /\ UNCHANGED <<cPrompt, fmtVars, anaVars, hostVars, execVars>>

NextClassify == Classify
SpecClassify == InitClassify /\ [][NextClassify]_vars

(***************************************************************************)
(* SpecFormat: _format_response on every raw object of ParsedObjects       *)
(***************************************************************************)
FormatKeys == {"task", "risk_classification", "categories", "risk_categories",
               "business_summary", "industry", "products", "geography",
               "consistency_check", "discussed_risks", "consistent_risks", "confidence"}

FormatValues == {
    PyNone, PyInt(0), PyStr("Tech"),
    PyList(<< >>), StrList(<<"Market Risk">>), StrList(<<"Liquidity Risk", "Market Risk">>),
    PyDict(EmptyDict), PyDict([industry |-> PyStr("Retail"), products |-> PyNone]) }

ParsedObjects ==
    {PyDict(d) : d \in UNION {[K -> FormatValues] :
                                K \in {S \in SUBSET FormatKeys : Cardinality(S) <= MaxKeys}}}

InitFormat ==
    /\ fParsed \in ParsedObjects /\ fTaskType \in TaskTypes /\ fOut = Pending
    /\ ClsIdle /\ AnaIdle /\ HostIdle /\ ExecIdle

Format ==
    /\ fOut = Pending
    /\ fOut' = _format_response(fParsed, fTaskType)
    /\ UNCHANGED <<fParsed, fTaskType, clsVars, anaVars, hostVars, execVars>>

NextFormat == Format
SpecFormat == InitFormat /\ [][NextFormat]_vars

(***************************************************************************)
(* SpecAnalyze: one call of analyze; the request to the generation service *)
(* is the one point where the coroutine is suspended.                      *)
(***************************************************************************)
InitAnalyze ==
    /\ aPrompt \in Texts /\ aPc = "start" /\ aTaskType = "unset"
    /\ aReply = ReplyNone /\ aCalls = 0 /\ aOut = Pending
    /\ ClsIdle /\ FmtIdle /\ HostIdle /\ ExecIdle

\* lines 55-61: detect the task type, build the system prompt, send the request
AnalyzeCall ==
    /\ aPc = "start"
    /\ aTaskType' = _get_system_prompt(_detect_task_type(aPrompt)).task
    /\ aCalls' = aCalls + 1
    /\ aPc' = "awaiting"
    /\ UNCHANGED <<aPrompt, aReply, aOut, clsVars, fmtVars, hostVars, execVars>>

\* lines 61-80: the request comes back; parse, normalise, or fall back
AnalyzeReturn(reply) ==
    /\ aPc = "awaiting"
    /\ aReply' = reply
    /\ aOut' = analyze_return(aTaskType, reply)
    /\ aPc' = "returned"
    /\ UNCHANGED <<aPrompt, aTaskType, aCalls, clsVars, fmtVars, hostVars, execVars>>

NextAnalyze == AnalyzeCall \/ \E reply \in Replies : AnalyzeReturn(reply)
SpecAnalyze == InitAnalyze /\ [][NextAnalyze]_vars

(***************************************************************************)
(* Spec: AnalystExecutor.execute.  Every inbound message is one call of    *)
(* execute, a coroutine that may be suspended at each await; calls for the *)
(* same or for different tasks interleave at these points.  A call of the  *)
(* host (event queue, TaskUpdater) either takes effect or raises.          *)
(***************************************************************************)
\* The store is empty, or holds one task that the host has cancelled or
\* rejected earlier.
Init ==
    /\ status \in {st \in [Tasks -> {"none", "canceled", "rejected"}] :
                     \A t \in Tasks : t # 1 => st[t] = "none"}
    /\ events = [e \in Execs |-> << >>]
    /\ allocated = {t \in Tasks : status[t] # "none"}
    /\ faults = 0
    /\ ExecIdle
    /\ ClsIdle /\ FmtIdle /\ AnaIdle

\* asyncio runs one coroutine at a time, and a coroutine keeps running until it
\* awaits.  Every await of execute is a point where the call can be suspended
\* and another call run: the calls of the host (lines 247, 251, 258, 267, 272,
\* 276) and the request to the generation service (line 61, under line 264).
\* pc[e] names the await at which call e is suspended; one action is the code
\* from the return of that await up to the next one.

\* The calls are numbered in the order they begin.
Begins(e) == pc[e] = "idle" /\ \A e2 \in Execs : e2 < e => pc[e2] # "idle"

\* the host call takes effect: the event is on the queue
Emit(e, ev) == events' = [events EXCEPT ![e] = Append(@, ev)] /\ UNCHANGED faults

\* the await of a host call raises
HostRaises == faults < MaxFaults /\ faults' = faults + 1

\* what the await of a host call raises: an error of the host, or the
\* cancellation of the call
HostErrors == {"RuntimeError", "CancelledError"}

\* the execute call ends by returning
Returns(e, how) ==
    /\ pc' = [pc EXCEPT ![e] = "done"]
    /\ outcome' = [outcome EXCEPT ![e] = how]

\* lines 237-239: no message in the request context
ExecuteNoMessage(e) ==
    /\ Begins(e)
    /\ msg' = [msg EXCEPT ![e] = NoMessage]
    /\ Returns(e, "no_message")
    /\ UNCHANGED <<task, task_type, gen, result, err, analyzeCalls, genCalls,
                   hostVars, clsVars, fmtVars, anaVars>>

\* lines 241-243: the current task is in a terminal state
ExecuteTerminal(e, m, t) ==
    /\ Begins(e)
    /\ m.present
    /\ status[t] \in TERMINAL_STATES
    /\ msg' = [msg EXCEPT ![e] = m]
    /\ task' = [task EXCEPT ![e] = t]
    /\ Returns(e, "ignored")
    /\ UNCHANGED <<task_type, gen, result, err, analyzeCalls, genCalls,
                   hostVars, clsVars, fmtVars, anaVars>>

\* A plausible slip: the terminal-state test left out.
ExecuteCurrent_unguarded(e, m, t) ==
    /\ Begins(e)
    /\ m.present
    /\ status[t] # "none"
    /\ msg' = [msg EXCEPT ![e] = m]
    /\ task' = [task EXCEPT ![e] = t]
    /\ pc' = [pc EXCEPT ![e] = "start_work"]
    /\ UNCHANGED <<task_type, gen, result, err, outcome, analyzeCalls, genCalls,
                   hostVars, clsVars, fmtVars, anaVars>>

\* lines 241-249: the current task exists and is not terminal
ExecuteCurrent(e, m, t) ==
    /\ Begins(e)
    /\ m.present
    /\ status[t] # "none"
    /\ status[t] \notin TERMINAL_STATES
    /\ msg' = [msg EXCEPT ![e] = m]
    /\ task' = [task EXCEPT ![e] = t]
    /\ pc' = [pc EXCEPT ![e] = "start_work"]
    /\ UNCHANGED <<task_type, gen, result, err, outcome, analyzeCalls, genCalls,
                   hostVars, clsVars, fmtVars, anaVars>>

\* lines 245-246: no current task; new_task(msg) makes one with a fresh id
ExecuteNew(e, m) ==
    /\ Begins(e)
    /\ m.present
    /\ allocated # Tasks
    /\ LET t == Min(Tasks \ allocated) IN
       /\ task' = [task EXCEPT ![e] = t]
       /\ allocated' = allocated \cup {t}
    /\ msg' = [msg EXCEPT ![e] = m]
    /\ pc' = [pc EXCEPT ![e] = "enqueue_task"]
    /\ UNCHANGED <<task_type, gen, result, err, outcome, analyzeCalls, genCalls,
                   status, events, faults, clsVars, fmtVars, anaVars>>

\* line 247: await event_queue.enqueue_event(task); outside the try block
EnqueueTask(e) ==
    /\ pc[e] = "enqueue_task"
    /\ \/ /\ status' = [status EXCEPT ![task[e]] = "submitted"]
          /\ Emit(e, TaskEvent("submitted"))
          /\ pc' = [pc EXCEPT ![e] = "start_work"]
          /\ UNCHANGED outcome
       \/ /\ HostRaises
          /\ Returns(e, "raised")
          /\ UNCHANGED <<status, events>>
    /\ UNCHANGED <<msg, task, task_type, gen, result, err, analyzeCalls, genCalls,
                   allocated, clsVars, fmtVars, anaVars>>

\* line 251: await updater.start_work(); outside the try block
StartWork(e) ==
    /\ pc[e] = "start_work"
    /\ \/ /\ status' = [status EXCEPT ![task[e]] = "working"]
          /\ Emit(e, StatusEvent("working", ""))
          /\ pc' = [pc EXCEPT ![e] = "update_status"]
          /\ UNCHANGED outcome
       \/ /\ HostRaises
          /\ Returns(e, "raised")
          /\ UNCHANGED <<status, events>>
    /\ UNCHANGED <<msg, task, task_type, gen, result, err, analyzeCalls, genCalls,
                   allocated, clsVars, fmtVars, anaVars>>

\* exception x raised at step where inside the try block, lines 253-274:
\* "except Exception" takes it, or it leaves execute
Caught(e, where, x) ==
    /\ err' = [err EXCEPT ![e] = where]
    /\ IF IsException(x)
       THEN pc' = [pc EXCEPT ![e] = "except"] /\ UNCHANGED outcome
       ELSE Returns(e, "raised")

\* lines 255-264 and 55-61: input_text = get_message_text(msg); await
\* updater.update_status(...); then analyze(input_text) up to its request to
\* the generation service
UpdateStatus(e) ==
    /\ pc[e] = "update_status"
    /\ \/ /\ status' = [status EXCEPT ![task[e]] = "working"]
          /\ Emit(e, StatusEvent("working", "Analyzing financial document..."))
          /\ task_type' = [task_type EXCEPT ![e] = _detect_task_type(get_message_text(msg[e]))]
          /\ analyzeCalls' = [analyzeCalls EXCEPT ![e] = @ + 1]
          /\ genCalls' = [genCalls EXCEPT ![e] = @ + 1]
          /\ pc' = [pc EXCEPT ![e] = "awaiting"]
          /\ UNCHANGED <<err, outcome>>
       \/ /\ HostRaises
          /\ \E x \in HostErrors : Caught(e, "update_status", x)
          /\ UNCHANGED <<status, events, task_type, analyzeCalls, genCalls>>
    /\ UNCHANGED <<msg, task, gen, result, allocated, clsVars, fmtVars, anaVars>>

\* A plausible slip: a failed generation call or a failed parse sends the
\* coroutine back to call analyze again.
AnalystReturn_retry(e, reply) ==
    /\ pc[e] = "awaiting"
    /\ LET r == analyze_return(task_type[e], reply) IN
       /\ gen' = [gen EXCEPT ![e] = IF r.raised THEN "raised"
                                    ELSE IF analyze_try(task_type[e], reply).raised
                                    THEN "failed" ELSE "ok"]
       /\ IF r.raised
          THEN Caught(e, "analyze", r.value.v) /\ UNCHANGED <<result, analyzeCalls, genCalls>>
          ELSE IF analyze_try(task_type[e], reply).raised /\ genCalls[e] < 2
          THEN /\ analyzeCalls' = [analyzeCalls EXCEPT ![e] = @ + 1]
               /\ genCalls' = [genCalls EXCEPT ![e] = @ + 1]
               /\ UNCHANGED <<pc, result, err, outcome>>
          ELSE /\ result' = [result EXCEPT ![e] = r.value]
               /\ pc' = [pc EXCEPT ![e] = "add_artifact"]
               /\ UNCHANGED <<err, outcome, analyzeCalls, genCalls>>
    /\ UNCHANGED <<msg, task, task_type, hostVars, clsVars, fmtVars, anaVars>>

\* lines 61-80 and line 264: the request comes back and analyze returns its
\* result, or raises what its except clause does not catch
AnalystReturn(e, reply) ==
    /\ pc[e] = "awaiting"
    /\ LET r == analyze_return(task_type[e], reply) IN
       /\ gen' = [gen EXCEPT ![e] = IF r.raised THEN "raised"
                                    ELSE IF analyze_try(task_type[e], reply).raised
                                    THEN "failed" ELSE "ok"]
       /\ IF r.raised
          THEN Caught(e, "analyze", r.value.v) /\ UNCHANGED result
          ELSE /\ result' = [result EXCEPT ![e] = r.value]
               /\ pc' = [pc EXCEPT ![e] = "add_artifact"]
               /\ UNCHANGED <<err, outcome>>
    /\ UNCHANGED <<msg, task, task_type, analyzeCalls, genCalls,
                   hostVars, clsVars, fmtVars, anaVars>>

\* lines 267-270: await updater.add_artifact(..., name="FinancialAnalysis")
AddArtifact(e) ==
    /\ pc[e] = "add_artifact"
    /\ \/ /\ Emit(e, ArtifactEvent("FinancialAnalysis", result[e]))
          /\ pc' = [pc EXCEPT ![e] = "complete"]
          /\ UNCHANGED <<err, outcome>>
       \/ /\ HostRaises
          /\ \E x \in HostErrors : Caught(e, "add_artifact", x)
          /\ UNCHANGED events
    /\ UNCHANGED <<msg, task, task_type, gen, result, analyzeCalls, genCalls,
                   status, allocated, clsVars, fmtVars, anaVars>>

\* line 272: await updater.complete()
Complete(e) ==
    /\ pc[e] = "complete"
    /\ \/ /\ status' = [status EXCEPT ![task[e]] = "completed"]
          /\ Emit(e, StatusEvent("completed", ""))
          /\ Returns(e, "completed")
          /\ UNCHANGED err
       \/ /\ HostRaises
          /\ \E x \in HostErrors : Caught(e, "complete", x)
          /\ UNCHANGED <<status, events>>
    /\ UNCHANGED <<msg, task, task_type, gen, result, analyzeCalls, genCalls,
                   allocated, clsVars, fmtVars, anaVars>>

\* lines 274-278: except Exception: await updater.failed("Analysis error: ...")
Failed(e) ==
    /\ pc[e] = "except"
    /\ \/ /\ status' = [status EXCEPT ![task[e]] = "failed"]
          /\ Emit(e, StatusEvent("failed", "Analysis error"))
          /\ Returns(e, "failed")
       \/ /\ HostRaises
          /\ Returns(e, "raised")
          /\ UNCHANGED <<status, events>>
    /\ UNCHANGED <<msg, task, task_type, gen, result, err, analyzeCalls, genCalls,
                   allocated, clsVars, fmtVars, anaVars>>

Next ==
    \E e \in Execs :
        \/ ExecuteNoMessage(e)
        \/ \E m \in Messages, t \in Tasks : ExecuteTerminal(e, m, t)
        \/ \E m \in Messages, t \in Tasks : ExecuteCurrent(e, m, t)
        \/ \E m \in Messages : ExecuteNew(e, m)
        \/ EnqueueTask(e)
        \/ StartWork(e)
        \/ UpdateStatus(e)
        \/ \E reply \in ExecReplies : AnalystReturn(e, reply)
        \/ AddArtifact(e)
        \/ Complete(e)
        \/ Failed(e)

Spec == Init /\ [][Next]_vars

(***************************************************************************)
(* Properties of the Analyzer                                              *)
(***************************************************************************)
\* The cascade as a table: what each rule looks for and what it answers.
RuleMatches(i, s) ==
    CASE i = 1 -> Contains(kw_task_1, s) \/ Contains(kw_risk_classification, s)
      [] i = 2 -> Contains(kw_task_2, s) \/ Contains(kw_business_summary, s)
      [] i = 3 -> Contains(kw_task_3, s) \/ Contains(kw_consistency, s)
      [] i = 4 -> Contains(kw_risk_factor, s) \/ Contains(kw_section_1a, s)
      [] i = 5 -> Contains(kw_business, s) /\ Contains(kw_section_1, s)
RuleAnswer == <<"risk_classification", "business_summary", "consistency_check",
                "risk_classification", "business_summary">>
MatchingRules(text) == {i \in 1..5 : RuleMatches(i, lower(text))}

\* C1: the task type detected for a prompt is the answer of the lowest-numbered
\* rule that matches the lower-cased prompt, and risk_classification when no
\* rule matches.
C1_LowestMatchingRule ==
    cType # "unset" =>
        cType = IF MatchingRules(cPrompt) = {} THEN "risk_classification"
                ELSE RuleAnswer[Min(MatchingRules(cPrompt))]

\* A prompt with capitals that only rule 5 matches has been classified.
C1_Witness ==
    /\ cType = "business_summary"
    /\ MatchingRules(cPrompt) = {5}
    /\ cPrompt # lower(cPrompt)

\* The documented fallback table.
FallbackTable(tt) ==
    CASE tt = "risk_classification" ->
            PyDict([task |-> PyStr(tt),
                    risk_classification |-> StrList(<<"Market Risk", "Operational Risk">>)])
      [] tt = "business_summary" ->
            PyDict([task |-> PyStr(tt),
                    business_summary |-> PyDict([f \in {"industry", "products", "geography"} |->
                                                    PyStr("Unable to determine")])])
      [] tt = "consistency_check" ->
            PyDict([task |-> PyStr(tt), consistency_check |-> PyList(<< >>)])

\* The generation call raised, or returned text that is not one JSON document.
GenerationFailed(reply) ==
    \/ reply.kind = "raise"
    \/ reply.kind = "completion" /\ json_loads(reply.content).raised

\* analyze returned the JSON text of the fallback of the task type detected
\* from the prompt before the call
ReturnedFallback ==
    /\ ~aOut.raised
    /\ aTaskType = _detect_task_type(aPrompt)
    /\ aOut.value.k = "json"
    /\ aOut.value.v = FallbackTable(aTaskType)

\* C2 as claimed: whenever the generation call raises or its text is not
\* parseable JSON, analyze raises nothing and returns the fallback of the task
\* type detected before the call.
C2_FallbackOnAnyRaise ==
    (aPc = "returned" /\ GenerationFailed(aReply)) => ReturnedFallback

\* C2 as amended: when the generation call raises an exception that is an
\* Exception, or its text is not parseable JSON, analyze raises nothing and
\* returns the fallback of the task type detected before the call; when it
\* raises an exception that is no Exception (CancelledError, KeyboardInterrupt,
\* SystemExit, ...), analyze raises that exception.
C2_FallbackOnFailure ==
    (aPc = "returned" /\ GenerationFailed(aReply)) =>
        IF aReply.kind = "raise" /\ ~IsException(aReply.content.v)
        THEN aOut = Raise(aReply.content.v)
        ELSE ReturnedFallback

\* A business-summary prompt whose completion was cut off got the fallback.
C2_Witness ==
    /\ aPc = "returned"
    /\ aReply = ReplyTruncated
    /\ aTaskType = "business_summary"
    /\ ~aOut.raised
    /\ aOut.value.v = FallbackTable("business_summary")

\* C3: for every raw object and task type, _format_response returns an object
\* whose keys are exactly task and the payload field of the task type, with
\* task equal to the task type, whatever the types of the values it reads.
C3_ExactSchema ==
    fOut # Pending =>
        /\ ~fOut.raised
        /\ fOut.value.k = "dict"
        /\ DOMAIN fOut.value.v = {"task", fTaskType}
        /\ fOut.value.v["task"] = PyStr(fTaskType)

\* C8: the risk_classification payload of every result of analyze is a list of
\* strings, each one of the 12 category names of the instruction template.
C8_ClosedCategories ==
    (aPc = "returned" /\ aTaskType = "risk_classification") =>
        /\ ~aOut.raised
        /\ LET payload == aOut.value.v.v["risk_classification"] IN
           /\ payload.k = "list"
           /\ \A i \in 1..Len(payload.v) :
                /\ payload.v[i].k = "str"
                /\ payload.v[i].v \in _get_system_prompt("risk_classification").categories

\* The source field names of a list payload, in the order they are tried.
SourceNames(tt) ==
    IF tt = "risk_classification"
    THEN <<"risk_classification", "categories", "risk_categories">>
    ELSE <<"consistency_check", "discussed_risks", "consistent_risks">>
Payload == fOut.value.v[fTaskType]
PresentNames == {i \in 1..3 : SourceNames(fTaskType)[i] \in DOMAIN fParsed.v}
TruthyNames == {i \in PresentNames : Truthy(fParsed.v[SourceNames(fTaskType)[i]])}
ListTask == fOut # Pending /\ fTaskType \in {"risk_classification", "consistency_check"}

\* C9 as claimed: a later source field name is never used when an earlier one
\* is present in the raw object, even if the earlier one holds an empty list.
C9_FirstPresent ==
    ListTask =>
        /\ ~fOut.raised
        /\ \A i, j \in PresentNames :
              (i < j /\ fParsed.v[SourceNames(fTaskType)[i]] = PyList(<< >>))
                  => Payload = PyList(<< >>)

\* C9 as amended: the payload is the value of the first source field name that
\* is present with a true value (not None, 0, "", [] or {}), and the empty list
\* when there is none; so a later name is used when an earlier one is empty.
C9_FirstTruthy ==
    ListTask =>
        /\ ~fOut.raised
        /\ Payload = IF TruthyNames = {} THEN PyList(<< >>)
                     ELSE fParsed.v[SourceNames(fTaskType)[Min(TruthyNames)]]

\* risk_classification is present but empty, categories is not: the later
\* name's value is the payload.
C9_Witness ==
    /\ fOut # Pending
    /\ fTaskType = "risk_classification"
    /\ DOMAIN fParsed.v = {"risk_classification", "categories"}
    /\ fParsed.v["risk_classification"] = PyList(<< >>)
    /\ fParsed.v["categories"] = StrList(<<"Market Risk">>)
    /\ Payload = StrList(<<"Market Risk">>)

(***************************************************************************)
(* Properties of the TaskController                                        *)
(***************************************************************************)
RECURSIVE SumCalls(_, _)
SumCalls(t, n) ==
    IF n = 0 THEN 0
    ELSE SumCalls(t, n - 1) + (IF task[n] = t THEN analyzeCalls[n] ELSE 0)

\* the number of times analyze has been invoked for task t
TaskAnalyzeCalls(t) == SumCalls(t, MaxExecs)

\* C4: a message for a task whose status is completed, failed, canceled or
\* rejected when execute handles it is ignored: that step ends the call, emits
\* no event (so attaches no artifact), invokes no analysis and leaves every
\* task's status as it was.
C4_TerminalIgnored ==
    [][\A e \in Execs :
          (/\ pc[e] = "idle" /\ pc'[e] # "idle"
           /\ msg'[e].present
           /\ task'[e] \in Tasks
           /\ status[task'[e]] \in TERMINAL_STATES)
          => /\ pc'[e] = "done"
             /\ events' = events
             /\ status' = status
             /\ analyzeCalls' = analyzeCalls
             /\ genCalls' = genCalls]_vars

\* A message for a task that an earlier call completed has been ignored.
C4_Witness ==
    \E e \in Execs :
        /\ outcome[e] = "ignored"
        /\ msg[e].present
        /\ status[task[e]] = "completed"
        /\ analyzeCalls[e] = 0

\* the call of execute was a processing attempt (a message for a new or a
\* non-terminal task) and has ended
AttemptEnded(e) == pc[e] = "done" /\ outcome[e] \notin {"no_message", "ignored"}

\* C5: whichever step raised, no processing attempt ends with its task left in
\* submitted or working.
C5_EndsTerminal ==
    \A e \in Execs :
        AttemptEnded(e) => status[task[e]] \notin {"submitted", "working"}

\* C6 as claimed: analyze is never invoked a second time for a task, and has
\* been invoked once for a task that the controller completed.
C6_OncePerTask ==
    \A t \in Tasks :
        /\ TaskAnalyzeCalls(t) <= 1
        /\ status[t] = "completed" => TaskAnalyzeCalls(t) = 1

\* C6 as amended: analyze is invoked at most once in each call of execute: once
\* in a call that got as far as the analysis, never in a call that returned at
\* once, or that left the processing path before the analysis (an exception at
\* the task event, at start_work or at the status update).
C6_OncePerCall ==
    \A e \in Execs :
        /\ analyzeCalls[e] <= 1
        /\ (pc[e] \in {"awaiting", "add_artifact", "complete"} \/ outcome[e] = "completed")
               => analyzeCalls[e] = 1
        /\ (outcome[e] \in {"no_message", "ignored"}
            \/ pc[e] \in {"idle", "enqueue_task", "start_work", "update_status"}
            \/ err[e] = "update_status"
            \/ (outcome[e] = "raised" /\ err[e] = ""))
               => analyzeCalls[e] = 0
        /\ err[e] \in {"analyze", "add_artifact", "complete"} => analyzeCalls[e] = 1

\* Two messages for the same task, the second handled while the first call was
\* waiting for the generation service: analyze has been invoked twice for it.
C6_Witness ==
    \E e1, e2 \in Execs :
        /\ e1 # e2
        /\ task[e1] = task[e2]
        /\ pc[e1] = "awaiting" /\ pc[e2] = "awaiting"
        /\ status[task[e1]] = "working"
        /\ TaskAnalyzeCalls(task[e1]) = 2

NoText(e) == msg[e].present /\ get_message_text(msg[e]) = << >>

\* C7: a message with no extractable text fails its task: no artifact is
\* attached, the task is not completed, and a call that ends (other than by an
\* exception leaving execute) has set the task to failed.
C7_NoTextFails ==
    \A e \in Execs :
        NoText(e) =>
            /\ pc[e] # "complete"
            /\ outcome[e] # "completed"
            /\ (pc[e] = "done" /\ outcome[e] \notin {"ignored", "raised"})
                   => (outcome[e] = "failed" /\ status[task[e]] = "failed")

ControllerSteps == {"update_status", "add_artifact", "complete"}

\* C10: the generation service is called at most once in a call of execute; a
\* task is set to failed only by a call in which a controller step (status
\* update, artifact, completion) raised; and a call in which the generation
\* call failed (raised an error) or its output did not parse has the fallback
\* as the result of analyze, no exception from analyze, and, as long as no
\* controller step raises, goes on to attach the fallback as the
\* FinancialAnalysis artifact and to complete.
C10_FailureAbsorbed ==
    /\ \A e \in Execs :
        /\ genCalls[e] <= 1
        /\ (pc[e] = "except" \/ outcome[e] = "failed") => err[e] \in ControllerSteps
        /\ gen[e] = "failed" =>
            /\ genCalls[e] = 1
            /\ err[e] # "analyze"
            /\ result[e] = json_dumps(FallbackTable(task_type[e]), 0)
            /\ err[e] = "" => (pc[e] \in {"add_artifact", "complete"} \/ outcome[e] = "completed")
            /\ (pc[e] = "complete" \/ outcome[e] = "completed") =>
                   ArtifactsOf(e) = <<ArtifactEvent("FinancialAnalysis", result[e])>>
    /\ \A t \in Tasks :
        status[t] = "failed" =>
            \E e \in Execs : task[e] = t /\ outcome[e] = "failed" /\ err[e] \in ControllerSteps

\* A call whose generation request raised or whose completion did not parse
\* has attached the fallback and completed its task.
C10_Witness ==
    \E e \in Execs :
        /\ gen[e] = "failed"
        /\ genCalls[e] = 1
        /\ outcome[e] = "completed"
        /\ status[task[e]] = "completed"
        /\ Len(ArtifactsOf(e)) = 1
        /\ ArtifactsOf(e)[1].text = json_dumps(FallbackTable(task_type[e]), 0)
=============================================================================
